---------------------------- MODULE Spec2Model ----------------------------
(***************************************************************************)
(* Model of the CASAN L2 802.15.4 shim (src/libraries/L2-154/l2-154.c) and *)
(* of the FIFO access interface of the RF2xx driver                        *)
(* (src/fich_Compl/rf2xx.h).                                               *)
(*                                                                         *)
(* Every L2 function is one atomic action.  The calls a function makes to  *)
(* the external MAC library are appended, in program order, to `calls`;    *)
(* `op` names the function that ran last and `ret` is what it returned.    *)
(***************************************************************************)
EXTENDS Integers, Sequences, FiniteSets, TLC

VARIABLES
    \* ---- l2net_154 object and module globals (l2-154.c)
    l2,                     \* pointer returned by startL2_154: NULL or L2OBJ
    myaddr_, mtu_, curframe_,   \* fields of *l2
    conmsg,                 \* global conmsg pointer: NULL or CONMSGOBJ
    l2addr_154_broadcast,   \* global: [p, addr_], p the pointer, addr_ the object's field
    \* ---- external MAC library, as seen through its eight entry points
    libcfg,                 \* [addr2, channel, panid, msgbufsize, started]
    rd,                     \* index of the ring slot get_received exposes
    libHeld,                \* slot pointer handed out and not yet skipped
    frame,                  \* content of the slot libHeld points to
    \* ---- observation of the last function executed
    op, args, ret, calls, got, l2AtStart, printed, allocFailed, nullderef, halted,
    skipNoFrame, getWhileHeld, prevGot,
    \* ---- l2addr_154 objects (address heap)
    heap, heapBefore,
    \* ---- RF2xx FIFO access (rf2xx.h)
    spi, pending, firstCount, xferred, rop, lastFifo

vars == << l2, myaddr_, mtu_, curframe_, conmsg, l2addr_154_broadcast,
           libcfg, rd, libHeld, frame,
           op, args, ret, calls, got, l2AtStart, printed, allocFailed, nullderef,
           halted, skipNoFrame, getWhileHeld, prevGot,
           heap, heapBefore,
           spi, pending, firstCount, xferred, rop, lastFifo >>

l2vars == << l2, myaddr_, mtu_, curframe_, conmsg, l2addr_154_broadcast,
             libcfg, rd, libHeld, frame,
             got, l2AtStart, skipNoFrame, getWhileHeld, prevGot >>
obsvars == << op, args, ret, calls, printed, allocFailed, nullderef, halted >>
heapvars == << heap, heapBefore >>
radiovars == << spi, pending, firstCount, xferred, rop, lastFifo >>

---------------------------------------------------------------------------
(* Program constants *)

NULL == 0
L2OBJ == 1
CONMSGOBJ == 1
ADDROBJ == 1
\* memory that was never written (a local array, a malloc'ed object)
UNINIT == -1

I154_SIZE_HEADER == 2 + 1 + 2 + 2 + 2
I154_SIZE_FCS == 2
I154_MTU == 127
I154_ADDRLEN == 2
MSGBUFSIZE == 10

\* size_t is an unsigned type: arithmetic on it is modulo 2^SIZE_BITS
SIZE_BITS == 16
SizeMod == 2 ^ SIZE_BITS
SizeSub(a, b) == (a - b + SizeMod) % SizeMod

\* ZigMsg frame types and addressing modes (IEEE 802.15.4 frame control)
Z_FT_BEACON == 0
Z_FT_DATA == 1
Z_ADDRMODE_NOADDR == 0
Z_ADDRMODE_ADDR2 == 2
Z_ADDRMODE_ADDR8 == 3

\* fcf is the 16-bit frame control field: bit 6 is the intra-PAN bit, bits
\* 10-11 the destination addressing mode, bits 14-15 the source one.
Z_GET_INTRA_PAN(fcf) == ((fcf \div 64) % 2) # 0
Z_GET_DST_ADDR_MODE(fcf) == (fcf \div 1024) % 4
Z_GET_SRC_ADDR_MODE(fcf) == (fcf \div 16384) % 4
Z_SET_FCF(ft, intra, dm, sm) == ft + 64 * intra + 1024 * dm + 16384 * sm

CONST16(lo, hi) == (hi * 256 + lo) % 65536
addr2_broadcast == CONST16(255, 255)

---------------------------------------------------------------------------
(* Inputs *)

\* short addresses used as own address and in frames
AddrVals == { 1, 4660, addr2_broadcast }
\* values passed to setMTU; destinations and lengths passed to send
MtuVals == { 5, 12, I154_MTU }
DestVals == { 4660, addr2_broadcast }
LenVals == { 0, 1, 2, 116, 117, 65530, 65531 }
ChanVals == { 26 }
PanVals == { 51966 }

\* frame control fields: the one recv accepts, and one per header check
\* that fails
FcfVals == { Z_SET_FCF(Z_FT_DATA, 1, Z_ADDRMODE_ADDR2, Z_ADDRMODE_ADDR2),
             Z_SET_FCF(Z_FT_DATA, 0, Z_ADDRMODE_ADDR2, Z_ADDRMODE_ADDR2),
             Z_SET_FCF(Z_FT_DATA, 1, Z_ADDRMODE_ADDR8, Z_ADDRMODE_ADDR2),
             Z_SET_FCF(Z_FT_DATA, 1, Z_ADDRMODE_ADDR2, Z_ADDRMODE_NOADDR) }

\* the frames the library may hand over
Frames == [ frametype : {Z_FT_DATA}, fcf : FcfVals, dstaddr : AddrVals,
            srcaddr : {4660}, paylen : {3} ]
          \cup [ frametype : {Z_FT_BEACON},
                 fcf : { Z_SET_FCF(Z_FT_BEACON, 1, Z_ADDRMODE_ADDR2, Z_ADDRMODE_ADDR2) },
                 dstaddr : AddrVals, srcaddr : {4660}, paylen : {3} ]
NoFrame == [ frametype |-> 0, fcf |-> 0, dstaddr |-> 0, srcaddr |-> 0,
             paylen |-> 0 ]

\* the number of slots of the library's receive ring
RingSlots == 2

\* slot pointers of the library's receive ring: 1 .. RingSlots
SlotPtr(i) == i + 1

---------------------------------------------------------------------------
(* l2addr_154 from a string: init_l2addr_154_char *)

Byte == 0 .. 255

Digits == << "0", "1", "2", "3", "4", "5", "6", "7", "8", "9" >>
LowerHex == << "a", "b", "c", "d", "e", "f" >>
UpperHex == << "A", "B", "C", "D", "E", "F" >>

IndexOf(c, seq) == CHOOSE k \in 1 .. Len(seq) : seq[k] = c
InSeq(c, seq) == \E k \in 1 .. Len(seq) : seq[k] = c

isdigit(c) == InSeq(c, Digits)
isxdigit(c) == InSeq(c, Digits) \/ InSeq(c, LowerHex) \/ InSeq(c, UpperHex)
tolower(c) == IF InSeq(c, UpperHex) THEN LowerHex[IndexOf(c, UpperHex)] ELSE c
\* HexValue without the + 10 of line 58
HexValue_no_ten(c) == IF isdigit(c) THEN IndexOf(c, Digits) - 1
                      ELSE IndexOf(c, LowerHex) - 1

\* x = isdigit (c) ? (c - '0') : (c - 'a' + 10), for c = tolower (*a)
HexValue(c) == IF isdigit(c) THEN IndexOf(c, Digits) - 1
               ELSE IndexOf(c, LowerHex) - 1 + 10

\* The while loop of init_l2addr_154_char.  a is the string (a sequence of
\* characters, the terminating '\0' being the end of the sequence), pos the
\* position of the pointer a, st = [i, b, buf] the locals (buf is 1-based).
RECURSIVE ParseLoop(_, _, _)
ParseLoop(a, pos, st) ==
    IF ~(pos <= Len(a) /\ st.i < I154_ADDRLEN) THEN st
    ELSE IF a[pos] = ":"
         THEN ParseLoop(a, pos + 1,
                        [ i |-> st.i + 1, b |-> 0,
                          buf |-> [st.buf EXCEPT ![st.i + 1] = st.b] ])
    ELSE IF isxdigit(a[pos])
         THEN ParseLoop(a, pos + 1,
                        [ st EXCEPT !.b = (st.b * 16 + HexValue(tolower(a[pos]))) % 256 ])
    ELSE [ i |-> I154_ADDRLEN, b |-> st.b,
           buf |-> [k \in 1 .. I154_ADDRLEN |-> 0] ]

\* buf[] when the function reaches line 72
ParsedBuf(a) ==
    LET st == ParseLoop(a, 1, [ i |-> 0, b |-> 0,
                                buf |-> [k \in 1 .. I154_ADDRLEN |-> UNINIT] ])
    IN  IF st.i < I154_ADDRLEN THEN [st.buf EXCEPT ![st.i + 1] = st.b]
        ELSE st.buf

\* The values addr_ may receive: a byte that was never written reads as any
\* byte.
ByteRead(x) == IF x = UNINIT THEN Byte ELSE {x}
init_l2addr_154_char(a) ==
    { CONST16(lo, hi) : lo \in ByteRead(ParsedBuf(a)[1]),
                        hi \in ByteRead(ParsedBuf(a)[2]) }

BroadcastString == << "f", "f", ":", "f", "f" >>

---------------------------------------------------------------------------
(* The external MAC library.  Its state is the record                      *)
(*   [cfg, rd, held, frame, skipNoFrame, getWhileHeld]                     *)
(* built from the variables libcfg, rd, libHeld, frame, skipNoFrame and    *)
(* getWhileHeld.  The receive ring has RingSlots slots; the slot at        *)
(* index rd is the one get_received exposes, skip_received releases it.    *)

Lib == [ cfg |-> libcfg, rd |-> rd, held |-> libHeld, frame |-> frame,
         skipNoFrame |-> skipNoFrame, getWhileHeld |-> getWhileHeld ]

LibCfg0 == [ addr2 |-> 0, channel |-> 0, panid |-> 0, msgbufsize |-> 1,
             started |-> FALSE ]

setAddr2(L, a) == [L EXCEPT !.cfg.addr2 = a]
setChannel(L, c) == [L EXCEPT !.cfg.channel = c]
setPanid(L, p) == [L EXCEPT !.cfg.panid = p]
setMsgbufsize(L, n) == [L EXCEPT !.cfg.msgbufsize = n]
start(L) == [L EXCEPT !.cfg.started = TRUE]

\* releases the exposed slot; with no slot exposed there is nothing to
\* release, which skipNoFrame records
skip_received(L) ==
    IF L.held = NULL THEN [L EXCEPT !.skipNoFrame = TRUE]
    ELSE [L EXCEPT !.held = NULL, !.frame = NoFrame,
                   !.rd = (L.rd + 1) % RingSlots]

\* f is what the radio has put in slot rd (NoFrame: nothing).  A slot that
\* was not released is exposed again, which getWhileHeld records.  The
\* pointer returned is the held field of the result.
get_received(L, f) ==
    IF L.held # NULL THEN [L EXCEPT !.getWhileHeld = TRUE]
    ELSE IF f = NoFrame THEN L
    ELSE [L EXCEPT !.held = SlotPtr(L.rd), !.frame = f]

Call(f, a) == [ f |-> f, a |-> a ]

---------------------------------------------------------------------------
(* l2net_154 methods *)

\* recv_classify without the broadcast test of line 207
recv_classify_own_only(cur, fr, my) ==
    IF /\ cur # NULL
       /\ fr.frametype = Z_FT_DATA
       /\ Z_GET_DST_ADDR_MODE(fr.fcf) = Z_ADDRMODE_ADDR2
       /\ Z_GET_SRC_ADDR_MODE(fr.fcf) = Z_ADDRMODE_ADDR2
       /\ Z_GET_INTRA_PAN(fr.fcf)
    THEN IF fr.dstaddr # my THEN "RECV_WRONG_DEST" ELSE "RECV_OK"
    ELSE "RECV_EMPTY"

\* recv_classify without the intra-PAN test of line 203
recv_classify_no_intra_pan(cur, fr, my) ==
    IF /\ cur # NULL
       /\ fr.frametype = Z_FT_DATA
       /\ Z_GET_DST_ADDR_MODE(fr.fcf) = Z_ADDRMODE_ADDR2
       /\ Z_GET_SRC_ADDR_MODE(fr.fcf) = Z_ADDRMODE_ADDR2
    THEN IF fr.dstaddr # my /\ fr.dstaddr # addr2_broadcast
         THEN "RECV_WRONG_DEST"
         ELSE "RECV_OK"
    ELSE "RECV_EMPTY"

\* lines 199-212: the classification of the frame cur points to
recv_classify(cur, fr, my) ==
    IF /\ cur # NULL
       /\ fr.frametype = Z_FT_DATA
       /\ Z_GET_DST_ADDR_MODE(fr.fcf) = Z_ADDRMODE_ADDR2
       /\ Z_GET_SRC_ADDR_MODE(fr.fcf) = Z_ADDRMODE_ADDR2
       /\ Z_GET_INTRA_PAN(fr.fcf)
    THEN IF fr.dstaddr # my /\ fr.dstaddr # addr2_broadcast
         THEN "RECV_WRONG_DEST"
         ELSE "RECV_OK"
    ELSE "RECV_EMPTY"

\* recv_skips without the test of line 194
recv_skips_always(cur) == TRUE

\* line 194: whether recv releases the frame of the previous call
recv_skips(cur) == cur # NULL

\* recv_store assigning only a frame that was received
recv_store_keeps_old(old, p) == IF p = NULL THEN old ELSE p

\* line 198: the value recv stores in curframe_, given the old value and
\* the pointer get_received returned
recv_store(old, p) == p

recv ==
    /\ ~halted /\ l2 # NULL
    /\ \E f \in Frames \cup {NoFrame} :
         LET skips == recv_skips(curframe_)
             L1 == IF skips THEN skip_received(Lib) ELSE Lib
             L2 == get_received(L1, f)
             p == L2.held
             cur == recv_store(curframe_, p)
         IN  /\ curframe_' = cur
             /\ got' = p
             /\ prevGot' = (got # NULL)
             /\ rd' = L2.rd
             /\ libHeld' = L2.held
             /\ frame' = L2.frame
             /\ skipNoFrame' = L2.skipNoFrame
             /\ getWhileHeld' = L2.getWhileHeld
             /\ calls' = (IF skips THEN << Call("skip_received", <<>>) >> ELSE <<>>)
                         \o << Call("get_received", <<>>) >>
             /\ ret' = recv_classify(cur, L2.frame, myaddr_)
    /\ op' = "recv"
    /\ args' = <<>>
    /\ printed' = 0 /\ allocFailed' = FALSE /\ nullderef' = FALSE
    /\ UNCHANGED << l2, myaddr_, mtu_, conmsg, l2addr_154_broadcast, libcfg,
                    l2AtStart, halted >>
    /\ UNCHANGED heapvars /\ UNCHANGED radiovars

\* line 165 and line 172: l2->mtu_ - (I154_SIZE_HEADER + I154_SIZE_FCS)
maxpayload_of(mtu) == SizeSub(mtu, I154_SIZE_HEADER + I154_SIZE_FCS)

\* send_fits with < for <=
send_fits_strict(len, mtu) == len < SizeSub(mtu, I154_SIZE_HEADER + I154_SIZE_FCS)

\* line 172: whether send hands the data to sendto
send_fits(len, mtu) == len <= SizeSub(mtu, I154_SIZE_HEADER + I154_SIZE_FCS)

\* An L2 function that changes none of the l2net_154 fields nor the library
Observe(name, a, r, c) ==
    /\ op' = name /\ args' = a /\ ret' = r /\ calls' = c
    /\ printed' = 0 /\ allocFailed' = FALSE /\ nullderef' = FALSE
    /\ UNCHANGED halted
    /\ UNCHANGED l2vars /\ UNCHANGED heapvars /\ UNCHANGED radiovars

send ==
    /\ ~halted /\ l2 # NULL
    /\ \E dest \in DestVals, len \in LenVals, sent \in BOOLEAN :
         IF send_fits(len, mtu_)
         THEN Observe("send", << dest, len >>, sent,
                      << [ f |-> "sendto", a |-> << dest, len >>, r |-> sent ] >>)
         ELSE /\ ~sent
              /\ Observe("send", << dest, len >>, FALSE, <<>>)

maxpayload ==
    /\ ~halted /\ l2 # NULL
    /\ Observe("maxpayload", <<>>, maxpayload_of(mtu_), <<>>)

getMTU ==
    /\ ~halted /\ l2 # NULL
    /\ Observe("getMTU", <<>>, mtu_, <<>>)

setMTU ==
    /\ ~halted /\ l2 # NULL
    /\ \E mtu \in MtuVals :
         /\ mtu_' = mtu
         /\ op' = "setMTU" /\ args' = << mtu >> /\ ret' = NULL /\ calls' = <<>>
    /\ printed' = 0 /\ allocFailed' = FALSE /\ nullderef' = FALSE
    /\ UNCHANGED << l2, myaddr_, curframe_, conmsg, l2addr_154_broadcast,
                    libcfg, rd, libHeld, frame, got, l2AtStart, skipNoFrame,
                    getWhileHeld, prevGot, halted >>
    /\ UNCHANGED heapvars /\ UNCHANGED radiovars

\* lines 281-301: read through curframe_; the caller holds a frame
get_payload ==
    /\ ~halted /\ l2 # NULL /\ curframe_ # NULL
    /\ Observe("get_payload", <<>>, curframe_, <<>>)

get_paylen ==
    /\ ~halted /\ l2 # NULL /\ curframe_ # NULL
    /\ Observe("get_paylen", <<>>, frame.paylen, <<>>)

\* lines 89, 246, 266, 72: the store through the pointer malloc returned
\* is not guarded by the test of the pointer
stores_through(p) == TRUE

NullAddr == [ p |-> NULL, addr_ |-> 0 ]

\* lines 241-268: get_src and get_dst.  v is the field copied from the
\* current frame, ok whether malloc succeeded, trap whether a store through
\* the null pointer stops the program.
GetAddr(name, v) ==
    /\ ~halted /\ l2 # NULL /\ curframe_ # NULL
    /\ \E ok \in BOOLEAN, trap \in BOOLEAN :
         LET a == IF ok THEN ADDROBJ ELSE NULL
             bad == a = NULL /\ stores_through(a)
         IN  /\ (~bad => ~trap)
             /\ op' = name /\ args' = <<>> /\ calls' = <<>>
             /\ allocFailed' = ~ok
             /\ printed' = (IF ok THEN 0 ELSE 1)
             /\ nullderef' = bad
             /\ halted' = (bad /\ trap)
             /\ ret' = (IF ok THEN [ p |-> a, addr_ |-> v ] ELSE NullAddr)
    /\ UNCHANGED l2vars /\ UNCHANGED heapvars /\ UNCHANGED radiovars

get_src == GetAddr("get_src", frame.srcaddr)

get_dst == GetAddr("get_dst", frame.dstaddr)

---------------------------------------------------------------------------
(* startL2_154, statement by statement *)

\* startL2_154_body with start () called before the last two stores
startL2_154_body_start_early ==
    << "l2 = malloc", "l2->myaddr_ = a->addr_", "conmsg = malloc",
       "setAddr2", "setChannel", "setPanid", "setMsgbufsize",
       "setBroasdcastAddr", "start", "l2->mtu_ = I154_MTU",
       "l2->curframe_ = NULL", "return l2" >>

\* lines 142-160, in program order
startL2_154_body ==
    << "l2 = malloc", "l2->myaddr_ = a->addr_", "conmsg = malloc",
       "setAddr2", "setChannel", "setPanid", "setMsgbufsize",
       "setBroasdcastAddr", "l2->mtu_ = I154_MTU", "l2->curframe_ = NULL",
       "start", "return l2" >>

\* A store through l2.  With l2 null the store is undefined: the program
\* stops (e.trapL2) or goes on, the field reading back what was stored.
StoreL2(S, e, field, v) ==
    IF S.p = NULL
    THEN [S EXCEPT !.nullderef = TRUE, !.halted = e.trapL2, !.f[field] = v]
    ELSE [S EXCEPT !.f[field] = v]

\* One statement of startL2_154.  S holds the locals and the globals the
\* function touches, e the arguments and the outcomes of the environment.
Exec(stmt, S, e) ==
    IF S.halted THEN S
    ELSE CASE stmt = "l2 = malloc" ->
                [S EXCEPT !.p = IF e.okL2 THEN L2OBJ ELSE NULL,
                          !.allocFailed = @ \/ ~e.okL2,
                          !.printed = @ + (IF e.okL2 THEN 0 ELSE 1)]
           [] stmt = "l2->myaddr_ = a->addr_" ->
                StoreL2(S, e, "myaddr_", IF S.p = NULL THEN e.wild ELSE e.a)
           [] stmt = "conmsg = malloc" ->
                [S EXCEPT !.conmsg = IF e.okCon THEN CONMSGOBJ ELSE NULL,
                          !.printed = @ + (IF e.okCon THEN 0 ELSE 1)]
           [] stmt = "setAddr2" ->
                [S EXCEPT !.lib = setAddr2(@, S.f.myaddr_),
                          !.calls = Append(@, Call("setAddr2", << S.f.myaddr_ >>))]
           [] stmt = "setChannel" ->
                [S EXCEPT !.lib = setChannel(@, e.chan),
                          !.calls = Append(@, Call("setChannel", << e.chan >>))]
           [] stmt = "setPanid" ->
                [S EXCEPT !.lib = setPanid(@, e.panid),
                          !.calls = Append(@, Call("setPanid", << e.panid >>))]
           [] stmt = "setMsgbufsize" ->
                [S EXCEPT !.lib = setMsgbufsize(@, MSGBUFSIZE),
                          !.calls = Append(@, Call("setMsgbufsize", << MSGBUFSIZE >>))]
           [] stmt = "setBroasdcastAddr" ->
                LET b == IF e.okB THEN ADDROBJ ELSE NULL
                    bad == b = NULL /\ stores_through(b)
                IN  [S EXCEPT !.bcast = IF e.okB THEN [ p |-> b, addr_ |-> e.baddr ]
                                        ELSE NullAddr,
                              !.allocFailed = @ \/ ~e.okB,
                              !.printed = @ + (IF e.okB THEN 0 ELSE 1),
                              !.nullderef = @ \/ bad,
                              !.halted = bad /\ e.trapB,
                              !.calls = Append(@, Call("setBroasdcastAddr", <<>>))]
           [] stmt = "l2->mtu_ = I154_MTU" -> StoreL2(S, e, "mtu_", I154_MTU)
           [] stmt = "l2->curframe_ = NULL" -> StoreL2(S, e, "curframe_", NULL)
           [] stmt = "start" ->
                [S EXCEPT !.lib = start(@),
                          !.calls = Append(@, Call("start", <<>>)),
                          !.atStart = [ l2 |-> S.p, myaddr_ |-> S.f.myaddr_,
                                        mtu_ |-> S.f.mtu_,
                                        curframe_ |-> S.f.curframe_ ]]
           [] stmt = "return l2" -> [S EXCEPT !.ret = S.p]

RECURSIVE Run(_, _, _, _)
Run(body, k, S, e) ==
    IF k > Len(body) THEN S ELSE Run(body, k + 1, Exec(body[k], S, e), e)

Fields0 == [ myaddr_ |-> UNINIT, mtu_ |-> UNINIT, curframe_ |-> UNINIT ]
AtStart0 == [ l2 |-> NULL, myaddr_ |-> UNINIT, mtu_ |-> UNINIT, curframe_ |-> UNINIT ]

startL2_154 ==
    /\ ~halted /\ l2 = NULL
    /\ \E a \in AddrVals, chan \in ChanVals, panid \in PanVals,
          okL2 \in BOOLEAN, okCon \in BOOLEAN, okB \in BOOLEAN,
          trapL2 \in BOOLEAN, trapB \in BOOLEAN, wild \in AddrVals,
          baddr \in init_l2addr_154_char(BroadcastString) :
         \* outcomes that are not reached are fixed, not enumerated
         /\ okL2 => (~trapL2 /\ wild = a)
         /\ okB => ~trapB
         /\ trapL2 => (okCon /\ okB)
         /\ LET e == [ a |-> a, chan |-> chan, panid |-> panid, okL2 |-> okL2,
                       okCon |-> okCon, okB |-> okB, trapL2 |-> trapL2,
                       trapB |-> trapB, wild |-> wild, baddr |-> baddr ]
                S0 == [ p |-> NULL, f |-> Fields0, conmsg |-> conmsg,
                        bcast |-> l2addr_154_broadcast, lib |-> Lib,
                        calls |-> <<>>, atStart |-> l2AtStart, ret |-> NULL,
                        printed |-> 0, allocFailed |-> FALSE,
                        nullderef |-> FALSE, halted |-> FALSE ]
                S == Run(startL2_154_body, 1, S0, e)
            IN  /\ op' = "startL2_154"
                /\ args' = << a, chan, panid >>
                /\ ret' = S.ret
                /\ calls' = S.calls
                /\ printed' = S.printed
                /\ allocFailed' = S.allocFailed
                /\ nullderef' = S.nullderef
                /\ halted' = S.halted
                /\ l2' = S.ret
                /\ IF S.ret # NULL
                   THEN /\ myaddr_' = S.f.myaddr_
                        /\ mtu_' = S.f.mtu_
                        /\ curframe_' = S.f.curframe_
                   ELSE UNCHANGED << myaddr_, mtu_, curframe_ >>
                /\ conmsg' = S.conmsg
                /\ l2addr_154_broadcast' = S.bcast
                /\ libcfg' = S.lib.cfg
                /\ l2AtStart' = S.atStart
    /\ UNCHANGED << rd, libHeld, frame, got, skipNoFrame, getWhileHeld, prevGot >>
    /\ UNCHANGED heapvars /\ UNCHANGED radiovars

---------------------------------------------------------------------------
(* l2addr_154 objects.  heap[p] is the object pointer p designates:        *)
(* [live, addr_]; heapBefore is the heap when the last function was called *)

MaxObj == 3
Ptrs == 1 .. MaxObj
FreeCell == [ live |-> FALSE, addr_ |-> 0 ]

\* what malloc may return: a cell that is not allocated, or NULL (always
\* possible, and the only result when every cell is allocated)
malloc(h) == { p \in Ptrs : ~h[p].live } \cup {NULL}

AddrStrings == { BroadcastString, << "1", ":", "0" >>,
                 << "3", "4", ":", "1", "2" >> }

AddrObs(name, a, r, failed, trap) ==
    /\ op' = name /\ args' = a /\ ret' = r /\ calls' = <<>>
    /\ allocFailed' = failed
    /\ printed' = (IF failed THEN 1 ELSE 0)
    /\ nullderef' = (failed /\ stores_through(NULL))
    /\ halted' = (failed /\ stores_through(NULL) /\ trap)
    /\ heapBefore' = heap
    /\ UNCHANGED l2vars /\ UNCHANGED radiovars

\* line 89: the value stored in the new object
init_addr_value(h, x) == h[x].addr_

\* copyAddr_heap with source and destination exchanged
copyAddr_heap_reversed(h, x, y) == [h EXCEPT ![y].addr_ = h[x].addr_]

\* line 94: the heap after copyAddr(x, y)
copyAddr_heap(h, x, y) == [h EXCEPT ![x].addr_ = h[y].addr_]

\* line 100
isEqualAddr_value(h, x, y) == h[x].addr_ = h[y].addr_

\* A new object holding v: lines 34-36 and 72-73, lines 86-90
NewAddr(name, a, v) ==
    \E p \in malloc(heap), trap \in BOOLEAN :
        /\ (p # NULL => ~trap)
        /\ heap' = (IF p # NULL THEN [heap EXCEPT ![p] = [ live |-> TRUE, addr_ |-> v ]]
                    ELSE heap)
        /\ AddrObs(name, a, p, p = NULL, trap)

init_l2addr_154_char_call ==
    /\ ~halted
    /\ \E str \in AddrStrings : \E v \in init_l2addr_154_char(str) :
         NewAddr("init_l2addr_154_char", << str >>, v)

init_l2addr_154_addr ==
    /\ ~halted
    /\ \E x \in Ptrs :
         /\ heap[x].live
         /\ NewAddr("init_l2addr_154_addr", << x >>, init_addr_value(heap, x))

copyAddr ==
    /\ ~halted
    /\ \E x \in Ptrs, y \in Ptrs :
         /\ heap[x].live /\ heap[y].live
         /\ heap' = copyAddr_heap(heap, x, y)
         /\ AddrObs("copyAddr", << x, y >>, NULL, FALSE, FALSE)

isEqualAddr ==
    /\ ~halted
    /\ \E x \in Ptrs, y \in Ptrs :
         /\ heap[x].live /\ heap[y].live
         /\ heap' = heap
         /\ AddrObs("isEqualAddr", << x, y >>, isEqualAddr_value(heap, x, y),
                    FALSE, FALSE)

freel2addr_154 ==
    /\ ~halted
    /\ \E x \in Ptrs :
         /\ heap[x].live
         /\ heap' = [heap EXCEPT ![x] = FreeCell]
         /\ AddrObs("freel2addr_154", << x >>, NULL, FALSE, FALSE)

---------------------------------------------------------------------------
(* RF2xx FIFO access (rf2xx.h).  Per radio handle r:                       *)
(*   spi[r]        "idle", "open_read" / "open_write" (a transfer left     *)
(*                 open by a first operation) or "busy" (a transfer        *)
(*                 running in the background)                              *)
(*   pending[r]    the asynchronous transfers started and neither          *)
(*                 completed nor cancelled, oldest first                   *)
(*   firstCount[r] first operations in the transfer now open               *)
(*   xferred[r]    bytes moved by the current (or last) SPI transfer       *)
(*   lastFifo[r]   the last FIFO operation called on r                     *)
(* rop is the last step: the radio, the function (or "handler" for the     *)
(* completion interrupt) and the length.                                   *)

Radios == { "radioA", "radioB" }
MaxLen == 2
Lengths == 1 .. MaxLen

\* may_start for a driver that accepts an access at any time
may_start_any(r) == TRUE

\* a FIFO access may start on r: no transfer is open or in the background
may_start(r) == spi[r] = "idle" /\ pending[r] = <<>>

\* may_continue for a driver that does not require the first operation
may_continue_any(r, dir) == spi[r] # "busy"

\* a remaining operation may run on r: the transfer was left open by the
\* first operation of the same direction, called just before
may_continue(r, dir) ==
    /\ spi[r] = "open_" \o dir
    /\ lastFifo[r] = "rf2xx_fifo_" \o dir \o "_first"
    /\ pending[r] = <<>>

RadioStep(r, name, len) ==
    /\ rop' = [ radio |-> r, name |-> name, len |-> len ]
    /\ UNCHANGED l2vars /\ UNCHANGED obsvars /\ UNCHANGED heapvars

\* rf2xx_fifo_read and rf2xx_fifo_write
FifoSync(dir) ==
    \E r \in Radios, len \in Lengths :
        /\ may_start(r)
        /\ xferred' = [xferred EXCEPT ![r] = len]
        /\ lastFifo' = [lastFifo EXCEPT ![r] = "rf2xx_fifo_" \o dir]
        /\ UNCHANGED << spi, pending, firstCount >>
        /\ RadioStep(r, "rf2xx_fifo_" \o dir, len)

\* rf2xx_fifo_read_async and rf2xx_fifo_write_async
FifoAsync(dir) ==
    \E r \in Radios, len \in Lengths :
        /\ may_start(r)
        /\ spi' = [spi EXCEPT ![r] = "busy"]
        /\ pending' = [pending EXCEPT ![r] = Append(@, [ first |-> 0, len |-> len ])]
        /\ xferred' = [xferred EXCEPT ![r] = 0]
        /\ lastFifo' = [lastFifo EXCEPT ![r] = "rf2xx_fifo_" \o dir \o "_async"]
        /\ UNCHANGED firstCount
        /\ RadioStep(r, "rf2xx_fifo_" \o dir \o "_async", len)

\* rf2xx_fifo_read_first and rf2xx_fifo_write_first
FifoFirst(dir) ==
    \E r \in Radios :
        /\ may_start(r)
        /\ spi' = [spi EXCEPT ![r] = "open_" \o dir]
        /\ firstCount' = [firstCount EXCEPT ![r] = @ + 1]
        /\ xferred' = [xferred EXCEPT ![r] = 1]
        /\ lastFifo' = [lastFifo EXCEPT ![r] = "rf2xx_fifo_" \o dir \o "_first"]
        /\ UNCHANGED pending
        /\ RadioStep(r, "rf2xx_fifo_" \o dir \o "_first", 1)

\* rf2xx_fifo_read_remaining and rf2xx_fifo_write_remaining
FifoRemaining(dir) ==
    \E r \in Radios, len \in Lengths :
        /\ may_continue(r, dir)
        /\ spi' = [spi EXCEPT ![r] = "idle"]
        /\ firstCount' = [firstCount EXCEPT ![r] = 0]
        /\ xferred' = [xferred EXCEPT ![r] = @ + len]
        /\ lastFifo' = [lastFifo EXCEPT ![r] = "rf2xx_fifo_" \o dir \o "_remaining"]
        /\ UNCHANGED pending
        /\ RadioStep(r, "rf2xx_fifo_" \o dir \o "_remaining", len)

\* rf2xx_fifo_read_remaining_async and rf2xx_fifo_write_remaining_async
FifoRemainingAsync(dir) ==
    \E r \in Radios, len \in Lengths :
        /\ may_continue(r, dir)
        /\ spi' = [spi EXCEPT ![r] = "busy"]
        /\ pending' = [pending EXCEPT ![r] = Append(@, [ first |-> 1, len |-> len ])]
        /\ firstCount' = [firstCount EXCEPT ![r] = 0]
        /\ lastFifo' = [lastFifo EXCEPT ![r] = "rf2xx_fifo_" \o dir \o "_remaining_async"]
        /\ UNCHANGED xferred
        /\ RadioStep(r, "rf2xx_fifo_" \o dir \o "_remaining_async", len)

rf2xx_fifo_read == FifoSync("read")
rf2xx_fifo_write == FifoSync("write")
rf2xx_fifo_read_async == FifoAsync("read")
rf2xx_fifo_write_async == FifoAsync("write")
rf2xx_fifo_read_first == FifoFirst("read")
rf2xx_fifo_write_first == FifoFirst("write")
rf2xx_fifo_read_remaining == FifoRemaining("read")
rf2xx_fifo_write_remaining == FifoRemaining("write")
rf2xx_fifo_read_remaining_async == FifoRemainingAsync("read")
rf2xx_fifo_write_remaining_async == FifoRemainingAsync("write")

\* the completion interrupt: the oldest background transfer of r is done
\* and the handler given when it was started is called
TransferComplete ==
    \E r \in Radios :
        /\ pending[r] # <<>>
        /\ pending' = [pending EXCEPT ![r] = Tail(@)]
        /\ spi' = [spi EXCEPT ![r] = IF Len(pending[r]) = 1 THEN "idle" ELSE @]
        /\ xferred' = [xferred EXCEPT ![r] = Head(pending[r]).first + Head(pending[r]).len]
        /\ UNCHANGED << firstCount, lastFifo >>
        /\ RadioStep(r, "handler", Head(pending[r]).len)

\* rf2xx_fifo_access_cancel, when a background transfer runs (with none
\* the call changes nothing)
rf2xx_fifo_access_cancel ==
    \E r \in Radios :
        /\ pending[r] # <<>>
        /\ pending' = [pending EXCEPT ![r] = <<>>]
        /\ spi' = [spi EXCEPT ![r] = "idle"]
        /\ lastFifo' = [lastFifo EXCEPT ![r] = "rf2xx_fifo_access_cancel"]
        /\ UNCHANGED << firstCount, xferred >>
        /\ RadioStep(r, "rf2xx_fifo_access_cancel", 0)

---------------------------------------------------------------------------
(* Specifications *)

Init ==
    /\ l2 = NULL /\ myaddr_ = UNINIT /\ mtu_ = UNINIT /\ curframe_ = UNINIT
    /\ conmsg = NULL /\ l2addr_154_broadcast = NullAddr
    /\ libcfg = LibCfg0 /\ rd = 0 /\ libHeld = NULL /\ frame = NoFrame
    /\ op = "none" /\ args = <<>> /\ ret = NULL /\ calls = <<>>
    /\ got = NULL /\ l2AtStart = AtStart0
    /\ printed = 0 /\ allocFailed = FALSE /\ nullderef = FALSE
    /\ halted = FALSE
    /\ skipNoFrame = FALSE /\ getWhileHeld = FALSE /\ prevGot = FALSE
    /\ heap = [p \in Ptrs |-> FreeCell] /\ heapBefore = [p \in Ptrs |-> FreeCell]
    /\ spi = [r \in Radios |-> "idle"]
    /\ pending = [r \in Radios |-> <<>>]
    /\ firstCount = [r \in Radios |-> 0]
    /\ xferred = [r \in Radios |-> 0]
    /\ rop = [ radio |-> "none", name |-> "none", len |-> 0 ]
    /\ lastFifo = [r \in Radios |-> "none"]

\* the l2net_154 object and the MAC library
Next ==
    \/ startL2_154
    \/ recv
    \/ send
    \/ maxpayload
    \/ setMTU
    \/ getMTU
    \/ get_src
    \/ get_dst
    \/ get_payload
    \/ get_paylen

Spec == Init /\ [][Next]_vars

\* the l2addr_154 objects
NextAddr ==
    \/ init_l2addr_154_char_call
    \/ init_l2addr_154_addr
    \/ copyAddr
    \/ isEqualAddr
    \/ freel2addr_154

SpecAddr == Init /\ [][NextAddr]_vars

\* the RF2xx FIFO accesses
NextRadio ==
    \/ rf2xx_fifo_read
    \/ rf2xx_fifo_write
    \/ rf2xx_fifo_read_async
    \/ rf2xx_fifo_write_async
    \/ rf2xx_fifo_read_first
    \/ rf2xx_fifo_write_first
    \/ rf2xx_fifo_read_remaining
    \/ rf2xx_fifo_write_remaining
    \/ rf2xx_fifo_read_remaining_async
    \/ rf2xx_fifo_write_remaining_async
    \/ TransferComplete
    \/ rf2xx_fifo_access_cancel

SpecRadio == Init /\ [][NextRadio]_vars

---------------------------------------------------------------------------
(* init_l2addr_154_char on arbitrary strings, setBroasdcastAddr, bcastaddr *)

\* the strings given to init_l2addr_154_char: up to MaxStrLen characters
\* among a digit, a lower-case and an upper-case hexadecimal letter, the
\* separator and a character that is none of these
MaxStrLen == 5
Alphabet == { "1", "f", "A", ":", "g" }
ParseStrings == UNION { [1 .. n -> Alphabet] : n \in 0 .. MaxStrLen }

\* the state before the call: the string is chosen, nothing has run
InitParse ==
    /\ l2 = NULL /\ myaddr_ = UNINIT /\ mtu_ = UNINIT /\ curframe_ = UNINIT
    /\ conmsg = NULL /\ l2addr_154_broadcast = NullAddr
    /\ libcfg = LibCfg0 /\ rd = 0 /\ libHeld = NULL /\ frame = NoFrame
    /\ op = "none" /\ ret = NULL /\ calls = <<>>
    /\ args \in { << str >> : str \in ParseStrings }
    /\ got = NULL /\ l2AtStart = AtStart0
    /\ printed = 0 /\ allocFailed = FALSE /\ nullderef = FALSE
    /\ halted = FALSE
    /\ skipNoFrame = FALSE /\ getWhileHeld = FALSE /\ prevGot = FALSE
    /\ heap = [p \in Ptrs |-> FreeCell] /\ heapBefore = [p \in Ptrs |-> FreeCell]
    /\ spi = [r \in Radios |-> "idle"]
    /\ pending = [r \in Radios |-> <<>>]
    /\ firstCount = [r \in Radios |-> 0]
    /\ xferred = [r \in Radios |-> 0]
    /\ rop = [ radio |-> "none", name |-> "none", len |-> 0 ]
    /\ lastFifo = [r \in Radios |-> "none"]

\* lines 32-74 on the string str: the object returned is r = [p, addr_].
\* ok is whether malloc succeeded, trap whether the store through the null
\* pointer stops the program.
CharAddr(str, r, ok, trap) ==
    LET a == IF ok THEN ADDROBJ ELSE NULL
        bad == a = NULL /\ stores_through(a)
    IN  /\ (~bad => ~trap)
        /\ \E v \in init_l2addr_154_char(str) :
             r = (IF ok THEN [ p |-> a, addr_ |-> v ] ELSE NullAddr)
        /\ allocFailed' = ~ok
        /\ printed' = (IF ok THEN 0 ELSE 1)
        /\ nullderef' = bad
        /\ halted' = (bad /\ trap)

init_l2addr_154_char_string ==
    /\ ~halted /\ op = "none"
    /\ \E ok \in BOOLEAN, trap \in BOOLEAN :
         /\ CharAddr(args[1], ret', ok, trap)
         /\ op' = "init_l2addr_154_char"
    /\ UNCHANGED << args, calls >>
    /\ UNCHANGED l2vars /\ UNCHANGED heapvars /\ UNCHANGED radiovars

\* lines 77-79
setBroasdcastAddr ==
    /\ ~halted /\ op = "none"
    /\ \E ok \in BOOLEAN, trap \in BOOLEAN :
         /\ CharAddr(BroadcastString, l2addr_154_broadcast', ok, trap)
         /\ op' = "setBroasdcastAddr"
    /\ UNCHANGED << args, ret, calls >>
    /\ UNCHANGED << l2, myaddr_, mtu_, curframe_, conmsg, libcfg, rd, libHeld,
                    frame, got, l2AtStart, skipNoFrame, getWhileHeld, prevGot >>
    /\ UNCHANGED heapvars /\ UNCHANGED radiovars

\* lines 227-229
bcastaddr ==
    /\ ~halted /\ op = "setBroasdcastAddr"
    /\ op' = "bcastaddr"
    /\ ret' = l2addr_154_broadcast
    /\ UNCHANGED << args, calls, printed, allocFailed, nullderef, halted >>
    /\ UNCHANGED l2vars /\ UNCHANGED heapvars /\ UNCHANGED radiovars

NextParse ==
    \/ init_l2addr_154_char_string
    \/ setBroasdcastAddr
    \/ bcastaddr

SpecParse == InitParse /\ [][NextParse]_vars

---------------------------------------------------------------------------
(* Properties of the l2net_154 methods (specification Spec) *)

Bit(x, k) == (x \div (2 ^ k)) % 2 = 1

\* the three header checks, on the frame get_received handed over: a data
\* frame, short (binary 10) destination and source modes, intra-PAN bit
HeaderValid ==
    /\ got # NULL
    /\ frame.frametype = 1
    /\ Bit(frame.fcf, 11) /\ ~Bit(frame.fcf, 10)
    /\ Bit(frame.fcf, 15) /\ ~Bit(frame.fcf, 14)
    /\ Bit(frame.fcf, 6)

DestMatches == frame.dstaddr = myaddr_ \/ frame.dstaddr = 65535

\* C1: recv returns RECV_OK exactly when the frame handed over is non-NULL,
\* is a data frame with 16-bit destination and source modes and the
\* intra-PAN bit, and is addressed to myaddr_ or to 0xffff; it returns
\* RECV_WRONG_DEST exactly when the header checks pass and the destination
\* is neither.
C1_RecvClassification ==
    op = "recv" =>
        /\ (ret = "RECV_OK") <=> (HeaderValid /\ DestMatches)
        /\ (ret = "RECV_WRONG_DEST") <=> (HeaderValid /\ ~DestMatches)

C1_Witness ==
    /\ op = "recv" /\ ret = "RECV_OK"
    /\ frame.dstaddr = 65535 /\ myaddr_ # 65535

\* C2 as stated: recv returns RECV_EMPTY only when get_received returned
\* NULL; a frame handed over is classified RECV_OK or RECV_WRONG_DEST.
C2_EmptyOnlyWithoutFrame ==
    op = "recv" => ((ret = "RECV_EMPTY") => got = NULL)

\* C2 amended: recv returns RECV_EMPTY exactly when get_received returned
\* NULL or the frame handed over fails one of the three header checks.
C2_EmptyIffNoValidFrame ==
    op = "recv" => ((ret = "RECV_EMPTY") <=> ~HeaderValid)

C2_Witness ==
    op = "recv" /\ ret = "RECV_EMPTY" /\ got # NULL /\ frame.frametype = 1

\* C3: in every state curframe_ is the pointer get_received returned in
\* the last recv (NULL before the first one): recv does not retain the
\* previous pointer and no other L2 function changes curframe_.
C3_CurframeIsLastReceived ==
    l2 # NULL => curframe_ = got

C3_Witness ==
    op = "recv" /\ prevGot /\ got = NULL /\ curframe_ = NULL

\* C4: send calls sendto(dest, data, len) once and returns its result when
\* len <= maxpayload = mtu_ - 11 in size_t arithmetic, and otherwise calls
\* nothing and returns false; myaddr_, mtu_ and curframe_ keep their value.
C4_Send ==
    [][ op' = "send" =>
          /\ myaddr_' = myaddr_ /\ mtu_' = mtu_ /\ curframe_' = curframe_
          /\ maxpayload_of(mtu_) = (mtu_ - (9 + 2)) % SizeMod
          /\ IF args'[2] <= maxpayload_of(mtu_)
             THEN /\ Len(calls') = 1
                  /\ calls'[1].f = "sendto"
                  /\ calls'[1].a = args'
                  /\ ret' = calls'[1].r
             ELSE calls' = <<>> /\ ret' = FALSE ]_vars

C4_Witness ==
    /\ op = "send" /\ args[2] = 116 /\ mtu_ = 127
    /\ Len(calls) = 1 /\ ret = TRUE

ReturnsAddress ==
    { "init_l2addr_154_char", "init_l2addr_154_addr", "startL2_154",
      "get_src", "get_dst" }

\* C5: when an allocation fails in init_l2addr_154_char,
\* init_l2addr_154_addr, startL2_154, get_src or get_dst, the function
\* prints a message and does not access memory through the null pointer.
C5_NoAccessThroughNull ==
    (op \in ReturnsAddress /\ allocFailed) => (printed >= 1 /\ ~nullderef)

\* C9: skip_received is called at the start of a recv exactly when the
\* previous recv obtained a frame; it is never called with no frame held,
\* and get_received is never called with a frame still held.
C9_SkipReleasesPreviousFrame ==
    /\ ~skipNoFrame
    /\ ~getWhileHeld
    /\ op = "recv" =>
         IF prevGot
         THEN /\ Len(calls) = 2
              /\ calls[1].f = "skip_received"
              /\ calls[2].f = "get_received"
         ELSE /\ Len(calls) = 1
              /\ calls[1].f = "get_received"

C9_Witness ==
    op = "recv" /\ prevGot /\ Len(calls) = 2 /\ got # NULL

CallNames(c) == [ k \in 1 .. Len(c) |-> c[k].f ]

\* C10: startL2_154 calls setAddr2(a->addr_), setChannel(chan),
\* setPanid(panid), setMsgbufsize(10), initialises the broadcast address
\* and only then calls start; when start is called the object it returns
\* has myaddr_ = a->addr_, mtu_ = I154_MTU and curframe_ = NULL.
C10_StartOrder ==
    op = "startL2_154" =>
        /\ (\E k \in 1 .. Len(calls) : calls[k].f = "start") =>
              CallNames(calls) = << "setAddr2", "setChannel", "setPanid",
                                    "setMsgbufsize", "setBroasdcastAddr",
                                    "start" >>
        /\ ret # NULL =>
              /\ Len(calls) = 6
              /\ calls[1].a = << args[1] >>
              /\ calls[2].a = << args[2] >>
              /\ calls[3].a = << args[3] >>
              /\ calls[4].a = << 10 >>
              /\ calls[6].f = "start"
              /\ l2AtStart = [ l2 |-> ret, myaddr_ |-> args[1], mtu_ |-> 127,
                               curframe_ |-> 0 ]
              /\ myaddr_ = args[1] /\ mtu_ = 127 /\ curframe_ = 0

C10_Witness ==
    op = "startL2_154" /\ ret # NULL /\ libcfg.started /\ myaddr_ = 4660

---------------------------------------------------------------------------
(* Properties of the l2addr_154 objects (specification SpecAddr) *)

\* C6: isEqualAddr(x, y) is true iff the two addr_ fields are equal; after
\* copyAddr(x, y) the fields are equal and y is unchanged; the object
\* init_l2addr_154_addr(x) returns is a new one with x's value, and x is
\* unchanged.
C6_AddressValueOps ==
    /\ op = "isEqualAddr" =>
         /\ ret = (heap[args[1]].addr_ = heap[args[2]].addr_)
         /\ heap = heapBefore
    /\ op = "copyAddr" =>
         /\ heap[args[1]].addr_ = heap[args[2]].addr_
         /\ heap[args[2]] = heapBefore[args[2]]
         /\ \A p \in Ptrs \ {args[1]} : heap[p] = heapBefore[p]
    /\ (op = "init_l2addr_154_addr" /\ ret # NULL) =>
         /\ ret # args[1]
         /\ ~heapBefore[ret].live /\ heap[ret].live
         /\ heap[ret].addr_ = heapBefore[args[1]].addr_
         /\ \A p \in Ptrs \ {ret} : heap[p] = heapBefore[p]

C6_Witness ==
    /\ op = "copyAddr" /\ args[1] # args[2]
    /\ heapBefore[args[1]].addr_ # heapBefore[args[2]].addr_

---------------------------------------------------------------------------
(* Properties of the RF2xx FIFO accesses (specification SpecRadio) *)

\* C7: on each radio handle at most one asynchronous transfer is pending;
\* a pending transfer stays pending until its handler is called on
\* completion or rf2xx_fifo_access_cancel is called on that handle.
C7_SinglePendingTransfer ==
    /\ [](\A r \in Radios : Len(pending[r]) <= 1)
    /\ [][ \A r \in Radios :
             (pending[r] # <<>> /\ pending'[r] # pending[r]) =>
                 /\ rop'.radio = r
                 /\ rop'.name \in { "handler", "rf2xx_fifo_access_cancel" }
                 /\ pending'[r] = <<>> ]_vars

C7_Witness ==
    /\ Len(pending["radioA"]) = 1 /\ Len(pending["radioB"]) = 1
    /\ rop.name = "rf2xx_fifo_write_remaining_async"

\* C8: a first operation moves one byte and leaves the SPI transfer open;
\* only the remaining operation of the same direction ends that transfer,
\* moving len further bytes; a remaining operation runs only when the
\* last FIFO operation on the handle was the one first operation.
C8_FirstRemainingProtocol ==
    [][ \A r \in Radios, dir \in { "read", "write" } :
          LET first == "rf2xx_fifo_" \o dir \o "_first"
              rem == "rf2xx_fifo_" \o dir \o "_remaining"
              remA == "rf2xx_fifo_" \o dir \o "_remaining_async"
              acts(n) == rop'.radio = r /\ rop'.name = n
          IN  /\ acts(first) =>
                    (spi'[r] = "open_" \o dir /\ xferred'[r] = 1)
              /\ (acts(rem) \/ acts(remA)) =>
                    /\ lastFifo[r] = first
                    /\ firstCount[r] = 1
                    /\ spi[r] = "open_" \o dir
              /\ acts(rem) =>
                    (spi'[r] = "idle" /\ xferred'[r] = 1 + rop'.len)
              /\ (acts("handler") /\ lastFifo[r] = remA) =>
                    (spi'[r] = "idle" /\ xferred'[r] = 1 + rop'.len)
              /\ (spi[r] = "open_" \o dir /\ spi'[r] # spi[r]) =>
                    (acts(rem) \/ acts(remA)) ]_vars

C8_Witness ==
    /\ rop.name = "rf2xx_fifo_read_remaining"
    /\ rop.len = 2
    /\ xferred[rop.radio] = 3
    /\ spi[rop.radio] = "idle"

---------------------------------------------------------------------------
(* Properties of init_l2addr_154_char (specification SpecParse) *)

HexLower == << "0", "1", "2", "3", "4", "5", "6", "7", "8", "9",
               "a", "b", "c", "d", "e", "f" >>
HexUpper == << "0", "1", "2", "3", "4", "5", "6", "7", "8", "9",
               "A", "B", "C", "D", "E", "F" >>
IsHex(c) == \E k \in 1 .. 16 : HexLower[k] = c \/ HexUpper[k] = c
HexOf(c) == (CHOOSE k \in 1 .. 16 : HexLower[k] = c \/ HexUpper[k] = c) - 1

\* the number one or two hexadecimal digits denote
HexNum(d) == IF Len(d) = 1 THEN HexOf(d[1]) ELSE 16 * HexOf(d[1]) + HexOf(d[2])

\* str is X ":" Y with the separator at position k
IsXY(str, k) ==
    /\ k \in 2 .. 3 /\ Len(str) - k \in 1 .. 2
    /\ str[k] = ":"
    /\ \A j \in 1 .. Len(str) : j # k => IsHex(str[j])

\* str has a character that is neither a hexadecimal digit nor ':' and the
\* first one comes after fewer than two ':'
BadBeforeTwoBytes(str) ==
    \E k \in 1 .. Len(str) :
        /\ ~IsHex(str[k]) /\ str[k] # ":"
        /\ \A j \in 1 .. k - 1 : IsHex(str[j]) \/ str[j] = ":"
        /\ Cardinality({ j \in 1 .. k - 1 : str[j] = ":" }) < 2

\* C11: init_l2addr_154_char turns "X:Y", X and Y of one or two hexadecimal
\* digits of either case, into CONST16(X, Y); the object bcastaddr returns
\* after setBroasdcastAddr holds 0xffff = addr2_broadcast; a string whose
\* first character that is neither hexadecimal nor ':' comes before two
\* bytes were stored gives CONST16(0, 0).
C11_ParseAddress ==
    /\ (op = "init_l2addr_154_char" /\ ret.p # NULL) =>
         /\ \A k \in 2 .. 3 :
              IsXY(args[1], k) =>
                  ret.addr_ = CONST16(HexNum(SubSeq(args[1], 1, k - 1)),
                                      HexNum(SubSeq(args[1], k + 1, Len(args[1]))))
         /\ BadBeforeTwoBytes(args[1]) => ret.addr_ = CONST16(0, 0)
    /\ (op = "bcastaddr" /\ ret.p # NULL) =>
         /\ ret.addr_ = 65535
         /\ ret.addr_ = addr2_broadcast
    /\ (op = "setBroasdcastAddr" /\ l2addr_154_broadcast.p # NULL) =>
         l2addr_154_broadcast.addr_ = addr2_broadcast

C11_Witness ==
    /\ op = "init_l2addr_154_char"
    /\ args[1] = << "A", "1", ":", "f" >>
    /\ ret.p # NULL
    /\ ret.addr_ = 15 * 256 + 161

===========================================================================
